---- MODULE Spec2Model ----
(***************************************************************************)
(* SubTrace (dns_gui_tool.py): the run_all pipeline, the merge step        *)
(* combine_subdomains, the report generator generate_report and the        *)
(* command line / graphical entry points.                                  *)
(*                                                                         *)
(* A text is a sequence of one-character strings (file contents) or of     *)
(* literal string pieces (the HTML document, the gowitness log).  A file   *)
(* is a record [exists, text].                                             *)
(***************************************************************************)
EXTENDS Integers, Sequences, FiniteSets, TLC

\* ---------------------------------------------------------------- bounds
MaxLenA == 5
MaxLenB == 2
MaxSections == 2
MaxEntryLen == 2
MaxClicks == 2

\* ------------------------------------------------------------- alphabets
\* amass.txt is drawn from CharsA (three lines need five characters),
\* subfinder.txt from CharsB, which adds the carriage return
CharsA == {"a", "b", "\n"}
CharsB == {"a", "b", "\n", "\r"}
EntryChars == {" ", "e"}
Domains == {"example.com", "x.org"}
DefaultDomain == "example.com"

SeqsUpTo(S, n) == UNION {[1..k -> S] : k \in 0..n}

\* ------------------------------------------------------------ file system
NoFile == [exists |-> FALSE, text |-> <<>>]
FileOf(t) == [exists |-> TRUE, text |-> t]

HtmlName(d) == d \o "_reporte.html"
PdfName(d) == d \o "_reporte.pdf"

ToolFiles == {"amass.txt", "dnsrecon.txt", "subfinder.txt", "subdominios.txt",
              "vivos.txt", "gowitness.txt", "nmap.txt"}
FileNames == ToolFiles \cup {HtmlName(d) : d \in Domains} \cup {PdfName(d) : d \in Domains}

EmptyFs == [f \in FileNames |-> NoFile]

\* Path.read_text(): FileNotFoundError when the file does not exist; text
\* mode translates "\r\n" and a lone "\r" to "\n".
RECURSIVE Translate(_)
Translate(t) ==
    IF t = <<>> THEN <<>>
    ELSE IF Head(t) = "\r"
         THEN IF Len(t) > 1 /\ t[2] = "\n"
              THEN <<"\n">> \o Translate(SubSeq(t, 3, Len(t)))
              ELSE <<"\n">> \o Translate(Tail(t))
         ELSE <<Head(t)>> \o Translate(Tail(t))

read_text(file) ==
    IF file.exists THEN [raised |-> FALSE, text |-> Translate(file.text)]
    ELSE [raised |-> TRUE, text |-> <<>>]

\* str.splitlines(): break at every line boundary, no trailing empty line.
RECURSIVE SplitAcc(_, _, _)
SplitAcc(t, cur, acc) ==
    IF t = <<>> THEN (IF cur = <<>> THEN acc ELSE Append(acc, cur))
    ELSE IF Head(t) = "\n"
         THEN SplitAcc(Tail(t), <<>>, Append(acc, cur))
         ELSE SplitAcc(Tail(t), Append(cur, Head(t)), acc)

splitlines(t) == SplitAcc(t, <<>>, <<>>)

\* ------------------------------------------------------------- merge step
\* the inner loop of combine_subdomains: st = [seen, dst, raised]
RECURSIVE MergeLines_KeepDuplicates(_, _)
MergeLines_KeepDuplicates(lines, st) ==
    IF lines = <<>> THEN st
    ELSE MergeLines_KeepDuplicates(Tail(lines),
             [st EXCEPT !.dst = st.dst \o Head(lines) \o <<"\n">>])

RECURSIVE MergeLines(_, _)
MergeLines(lines, st) ==
    IF lines = <<>> THEN st
    ELSE IF Head(lines) \notin st.seen
         THEN MergeLines(Tail(lines),
                  [st EXCEPT !.seen = st.seen \cup {Head(lines)},
                             !.dst = st.dst \o Head(lines) \o <<"\n">>])
         ELSE MergeLines(Tail(lines), st)

\* one iteration of "for path in (amass, subfinder)"
MergePath_NoExistsCheck(file, st) ==
    IF st.raised THEN st
    ELSE LET r == read_text(file)
         IN IF r.raised THEN [st EXCEPT !.raised = TRUE]
            ELSE MergeLines(splitlines(r.text), st)

MergePath(file, st) ==
    IF st.raised THEN st
    ELSE IF ~file.exists THEN st
    ELSE LET r == read_text(file)
         IN IF r.raised THEN [st EXCEPT !.raised = TRUE]
            ELSE MergeLines(splitlines(r.text), st)

combine_subdomains(files) ==
    LET st0 == [seen |-> {}, dst |-> <<>>, raised |-> FALSE]
        st1 == MergePath(files["amass.txt"], st0)
        st2 == MergePath(files["subfinder.txt"], st1)
    IN  st2

\* ------------------------------------------------------ ordered mapping
\* Dict[str, Path] as a sequence of <<key, file name>> pairs in insertion
\* order; results[k] = v keeps the position of a key already present.
Keys(d) == [i \in 1..Len(d) |-> d[i][1]]

DictSet_Prepend(d, k, v) ==
    IF \E i \in 1..Len(d) : d[i][1] = k
    THEN [i \in 1..Len(d) |-> IF d[i][1] = k THEN <<k, v>> ELSE d[i]]
    ELSE <<<<k, v>>>> \o d

DictSet(d, k, v) ==
    IF \E i \in 1..Len(d) : d[i][1] = k
    THEN [i \in 1..Len(d) |-> IF d[i][1] = k THEN <<k, v>> ELSE d[i]]
    ELSE Append(d, <<k, v>>)

\* --------------------------------------------------------- report generator
WS == "\n            "
HeadTok == "<head><meta charset=\"utf-8\"><title>SubTrace Report</title></head>"
Placeholder == <<"PDF generation failed">>

\* each entry's path.read_text(), in mapping order; raised when one is missing
RECURSIVE ReadAll(_, _)
ReadAll(outputs, files) ==
    IF outputs = <<>> THEN [raised |-> FALSE, texts |-> <<>>]
    ELSE LET r == read_text(files[Head(outputs)[2]])
         IN IF r.raised THEN [raised |-> TRUE, texts |-> <<>>]
            ELSE LET rest == ReadAll(Tail(outputs), files)
                 IN IF rest.raised THEN rest
                    ELSE [raised |-> FALSE, texts |-> <<r.text>> \o rest.texts]

\* the body of the template's {% for name, path in outputs.items() %} loop
RECURSIVE TemplateSections(_, _)
TemplateSections(outputs, texts) ==
    IF outputs = <<>> THEN <<>>
    ELSE <<WS, "<h2>", Head(outputs)[1], "</h2>", WS, "<pre>">> \o Head(texts)
         \o <<"</pre>", WS>> \o TemplateSections(Tail(outputs), Tail(texts))

\* Template(...).render(domain=domain, outputs=tool_outputs)
RenderTemplate(domain, outputs, texts) ==
    <<WS, "<html>", WS, HeadTok, WS, "<body>", WS,
      "<h1>", "Reconocimiento para ", domain, "</h1>", WS>>
    \o TemplateSections(outputs, texts)
    \o <<WS, "</body>", WS, "</html>", WS>>

\* "".join(f"<h2>{name}</h2><pre>{path.read_text()}</pre>" for ...)
RECURSIVE ManualSections_Reversed(_, _)
ManualSections_Reversed(outputs, texts) ==
    IF outputs = <<>> THEN <<>>
    ELSE ManualSections_Reversed(Tail(outputs), Tail(texts))
         \o <<"<h2>", Head(outputs)[1], "</h2>", "<pre>">> \o Head(texts) \o <<"</pre>">>

RECURSIVE ManualSections(_, _)
ManualSections(outputs, texts) ==
    IF outputs = <<>> THEN <<>>
    ELSE <<"<h2>", Head(outputs)[1], "</h2>", "<pre>">> \o Head(texts) \o <<"</pre>">>
         \o ManualSections(Tail(outputs), Tail(texts))

\* the manually assembled HTML string used when Template is None
RenderManual(domain, outputs, texts) ==
    <<"<html>", HeadTok, "<body>",
      "<h1>", "Reconocimiento para ", domain, "</h1>">>
    \o ManualSections(outputs, texts)
    \o <<"</body>", "</html>">>

\* pdfkit.from_file(html, pdf): the converter's rendering of the document
PdfOf(html) == <<"%PDF">> \o html

\* pdfkit.from_file inside try/except Exception; kit is the state of the
\* converter: "absent" (pdfkit is None: AttributeError), "failing" (raises),
\* "working"
PdfKitStates == {"absent", "failing", "working"}

WritePdf_Propagate(kit, html) ==
    IF kit = "working" THEN [raised |-> FALSE, file |-> FileOf(PdfOf(html))]
    ELSE [raised |-> TRUE, file |-> NoFile]

WritePdf(kit, html) ==
    IF kit = "working" THEN [raised |-> FALSE, file |-> FileOf(PdfOf(html))]
    ELSE [raised |-> FALSE, file |-> FileOf(Placeholder)]

\* generate_report: the files after the call, the files it wrote and the
\* exception that left it ("none" when it returned)
generate_report(dom, outputs, files, tmpl, kit) ==
    LET r == ReadAll(outputs, files)
    IN IF r.raised THEN [error |-> "read", files |-> files, wrote |-> {}]
       ELSE LET html == IF tmpl THEN RenderTemplate(dom, outputs, r.texts)
                        ELSE RenderManual(dom, outputs, r.texts)
                f1 == [files EXCEPT ![HtmlName(dom)] = FileOf(html)]
                p == WritePdf(kit, html)
            IN IF p.raised
               THEN [error |-> "pdf", files |-> f1, wrote |-> {HtmlName(dom)}]
               ELSE [error |-> "none",
                     files |-> [f1 EXCEPT ![PdfName(dom)] = p.file],
                     wrote |-> {HtmlName(dom), PdfName(dom)}]

\* ------------------------------------------------------------------ state
VARIABLES
    pc,          \* run_all: the stage about to execute, "done" or "error"
    run,         \* "first" or "second" call of run_all on the domain
    domain,      \* run_all's argument
    dirs,        \* directories that exist
    fs,          \* the files of <domain>-recon/
    results,     \* run_all's results mapping
    trace,       \* the stages executed by the current run_all, in order
    written,     \* the files written during the current run_all
    err,         \* the exception that ended run_all, "none" otherwise
    Template,    \* jinja2.Template was imported
    pdfkit,      \* state of the PDF converter
    mpc,         \* __main__ / run_gui position
    argDomain,   \* args.domain, "None" when absent
    argGui,      \* args.gui
    ctk,         \* customtkinter was imported
    messagebox,  \* tkinter.messagebox was imported
    entry,       \* domain_var, the text of the entry field
    dialogs,     \* dialogs shown so far
    helpPrinted, \* parser.print_help() was called
    calls,       \* the arguments run_all was called with
    clicks       \* presses of the "Ejecutar" button

pipeVars == <<pc, run, domain, dirs, fs, results, trace, written, err, Template, pdfkit>>
mainVars == <<mpc, argDomain, argGui, ctk, messagebox, entry, dialogs, helpPrinted, calls, clicks>>
vars == <<pipeVars, mainVars>>

\* ------------------------------------------------------- external tools
ExitCodes == {0, 1}
HostTexts == {<<"a", "\n">>, <<"b", "\n">>}
LiveTexts == {<<"a", "\n">>}
NmapTexts == {<<"p", "\n">>}
Stdouts == {<<>>, <<"x", "\n">>}

SelfWrites(texts) == {NoFile} \cup {FileOf(t) : t \in texts}

\* subprocess.run(..., check=False): FileNotFoundError when the executable is
\* missing; the exit status is not looked at
run_command(found, rc, out) ==
    IF found THEN [raised |-> FALSE, stdout |-> out]
    ELSE [raised |-> TRUE, stdout |-> <<>>]

Raise(kind) == pc' = "error" /\ err' = kind

\* ---------------------------------------------------------------- run_all
CreateOutputDir ==
    /\ pc = "create_output_dir"
    /\ trace' = Append(trace, "create_output_dir")
    /\ \E ok \in BOOLEAN :
         IF ok \/ "out" \in dirs
         THEN /\ dirs' = dirs \cup {"out"}
              /\ pc' = "enumerate"
              /\ err' = err
         ELSE /\ Raise("mkdir")
              /\ dirs' = dirs
    /\ UNCHANGED <<run, domain, fs, results, written, Template, pdfkit, mainVars>>

\* an adapter of a self-writing tool: the tool gets the output path and may
\* or may not create the file; the adapter returns the path unchecked
SelfWritingAdapter(stage, next, key, file, texts) ==
    /\ pc = stage
    /\ trace' = Append(trace, stage)
    /\ \E found \in BOOLEAN, rc \in ExitCodes, w \in SelfWrites(texts) :
         LET r == run_command(found, rc, <<>>)
         IN IF r.raised
            THEN /\ Raise("exec")
                 /\ UNCHANGED <<fs, results, written>>
            ELSE /\ fs' = IF w.exists THEN [fs EXCEPT ![file] = w] ELSE fs
                 /\ written' = IF w.exists THEN written \cup {file} ELSE written
                 /\ results' = DictSet(results, key, file)
                 /\ pc' = next
                 /\ err' = err
    /\ UNCHANGED <<run, domain, dirs, Template, pdfkit, mainVars>>

RunAmass == SelfWritingAdapter("enumerate", "dns_info", "amass", "amass.txt", HostTexts)

RunDnsrecon ==
    /\ pc = "dns_info"
    /\ trace' = Append(trace, "dns_info")
    /\ \E found \in BOOLEAN, rc \in ExitCodes, out \in Stdouts :
         LET r == run_command(found, rc, out)
         IN IF r.raised
            THEN /\ Raise("exec")
                 /\ UNCHANGED <<fs, results, written>>
            ELSE /\ fs' = [fs EXCEPT !["dnsrecon.txt"] = FileOf(r.stdout)]
                 /\ written' = written \cup {"dnsrecon.txt"}
                 /\ results' = DictSet(results, "dnsrecon", "dnsrecon.txt")
                 /\ pc' = "secondary_enum"
                 /\ err' = err
    /\ UNCHANGED <<run, domain, dirs, Template, pdfkit, mainVars>>

RunSubfinder_SkipsMerge ==
    SelfWritingAdapter("secondary_enum", "probe_live_hosts", "subfinder", "subfinder.txt", HostTexts)

RunSubfinder ==
    SelfWritingAdapter("secondary_enum", "merge_subdomains", "subfinder", "subfinder.txt", HostTexts)

CombineSubdomains ==
    /\ pc = "merge_subdomains"
    /\ trace' = Append(trace, "merge_subdomains")
    /\ LET m == combine_subdomains(fs)
       IN /\ fs' = [fs EXCEPT !["subdominios.txt"] = FileOf(m.dst)]
          /\ written' = written \cup {"subdominios.txt"}
          /\ IF m.raised
             THEN Raise("merge") /\ results' = results
             ELSE /\ results' = DictSet(results, "subdominios", "subdominios.txt")
                  /\ pc' = "probe_live_hosts"
                  /\ err' = err
    /\ UNCHANGED <<run, domain, dirs, Template, pdfkit, mainVars>>

RunHttpx == SelfWritingAdapter("probe_live_hosts", "capture_screenshots", "vivos", "vivos.txt", LiveTexts)

GowitnessLog(out) ==
    <<"Resultados de gowitness", "\n", "\n", "Capturas almacenadas en: ",
      "gowitness/shots", "\n", "\n", "Salida de la herramienta:", "\n">> \o out

RunGowitness ==
    /\ pc = "capture_screenshots"
    /\ trace' = Append(trace, "capture_screenshots")
    /\ dirs' = dirs \cup {"gowitness", "gowitness/shots"}
    /\ \E found \in BOOLEAN, rc \in ExitCodes, out \in Stdouts :
         LET r == run_command(found, rc, out)
         IN IF r.raised
            THEN /\ Raise("exec")
                 /\ UNCHANGED <<fs, results, written>>
            ELSE /\ fs' = [fs EXCEPT !["gowitness.txt"] = FileOf(GowitnessLog(r.stdout))]
                 /\ written' = written \cup {"gowitness.txt"}
                 /\ results' = DictSet(results, "gowitness", "gowitness.txt")
                 /\ pc' = "scan_ports"
                 /\ err' = err
    /\ UNCHANGED <<run, domain, Template, pdfkit, mainVars>>

RunNmap == SelfWritingAdapter("scan_ports", "generate_report", "nmap", "nmap.txt", NmapTexts)

GenerateReport ==
    /\ pc = "generate_report"
    /\ trace' = Append(trace, "generate_report")
    /\ LET r == generate_report(domain, results, fs, Template, pdfkit)
       IN /\ fs' = r.files
          /\ written' = written \cup r.wrote
          /\ IF r.error = "none"
             THEN pc' = "done" /\ err' = err
             ELSE Raise(r.error)
    /\ UNCHANGED <<run, domain, dirs, results, Template, pdfkit, mainVars>>

\* run_all is called again on the same domain; the directory and its files
\* are what the first call left
Rerun ==
    /\ pc \in {"done", "error"}
    /\ run = "first"
    /\ run' = "second"
    /\ pc' = "create_output_dir"
    /\ results' = <<>>
    /\ trace' = <<>>
    /\ written' = {}
    /\ err' = "none"
    /\ UNCHANGED <<domain, dirs, fs, Template, pdfkit, mainVars>>

MainIdle ==
    /\ mpc = "idle"
    /\ argDomain = "None"
    /\ argGui = FALSE
    /\ ctk = FALSE
    /\ messagebox = FALSE
    /\ entry = <<>>
    /\ dialogs = <<>>
    /\ helpPrinted = FALSE
    /\ calls = <<>>
    /\ clicks = 0

PipeInit ==
    /\ run = "first"
    /\ trace = <<>>
    /\ written = {}
    /\ err = "none"

\* the optional imports at the top of the module
EnvInit ==
    /\ Template \in BOOLEAN
    /\ pdfkit \in PdfKitStates

Init ==
    /\ PipeInit
    /\ EnvInit
    /\ pc = "create_output_dir"
    /\ domain = DefaultDomain
    /\ results = <<>>
    /\ dirs = {}
    /\ fs = EmptyFs
    /\ MainIdle

Stages ==
    \/ CreateOutputDir
    \/ RunAmass
    \/ RunDnsrecon
    \/ RunSubfinder
    \/ CombineSubdomains
    \/ RunHttpx
    \/ RunGowitness
    \/ RunNmap
    \/ GenerateReport

Next == Stages \/ Rerun

Spec == Init /\ [][Next]_vars

\* ----------------------------------------------------- __main__ and run_gui
\* str.strip() on the entry text
RECURSIVE LStrip(_)
LStrip(t) == IF t # <<>> /\ Head(t) = " " THEN LStrip(Tail(t)) ELSE t

RECURSIVE RStrip(_)
RStrip(t) ==
    IF t # <<>> /\ t[Len(t)] = " " THEN RStrip(SubSeq(t, 1, Len(t) - 1)) ELSE t

strip(t) == RStrip(LStrip(t))

Absent == [given |-> FALSE, value |-> <<>>]
Given(v) == [given |-> TRUE, value |-> v]

\* the call run_all(d): its stages are those of Spec; here the call is
\* recorded with its argument
CallRunAll(d) == calls' = Append(calls, d)

\* the dispatch at the end of the script: args.gui or (no domain and the
\* toolkit is present) -> run_gui(); a domain -> run_all(); else print_help()
Main ==
    /\ mpc = "main"
    /\ IF argGui \/ (~argDomain.given /\ ctk)
       THEN /\ mpc' = IF ctk THEN "gui" ELSE "crashed"
            /\ UNCHANGED <<calls, helpPrinted>>
       ELSE IF argDomain.given
       THEN /\ CallRunAll(argDomain.value)
            /\ \E raised \in BOOLEAN : mpc' = IF raised THEN "crashed" ELSE "exited"
            /\ UNCHANGED helpPrinted
       ELSE /\ helpPrinted' = TRUE
            /\ mpc' = "exited"
            /\ UNCHANGED calls
    /\ UNCHANGED <<argDomain, argGui, ctk, messagebox, entry, dialogs, clicks, pipeVars>>

\* the user types into the entry field
GuiEdit ==
    /\ mpc = "gui"
    /\ \E t \in SeqsUpTo(EntryChars, MaxEntryLen) : entry' = t
    /\ UNCHANGED <<mpc, argDomain, argGui, ctk, messagebox, dialogs, helpPrinted,
                   calls, clicks, pipeVars>>

\* start(): the command of the "Ejecutar" button
GuiStart_NoBlankCheck ==
    /\ mpc = "gui"
    /\ clicks < MaxClicks
    /\ clicks' = clicks + 1
    /\ CallRunAll(strip(entry))
    /\ \E raised \in BOOLEAN :
         dialogs' = IF messagebox /\ ~raised THEN Append(dialogs, "info") ELSE dialogs
    /\ UNCHANGED <<mpc, argDomain, argGui, ctk, messagebox, entry, helpPrinted, pipeVars>>

GuiStart ==
    /\ mpc = "gui"
    /\ clicks < MaxClicks
    /\ clicks' = clicks + 1
    /\ IF strip(entry) = <<>>
       THEN /\ dialogs' = IF messagebox THEN Append(dialogs, "warning") ELSE dialogs
            /\ UNCHANGED calls
       ELSE /\ CallRunAll(strip(entry))
            /\ \E raised \in BOOLEAN :
                 dialogs' = IF messagebox /\ ~raised THEN Append(dialogs, "info")
                            ELSE dialogs
    /\ UNCHANGED <<mpc, argDomain, argGui, ctk, messagebox, entry, helpPrinted, pipeVars>>

\* the window is closed and app.mainloop() returns
GuiClose ==
    /\ mpc = "gui"
    /\ mpc' = "exited"
    /\ UNCHANGED <<argDomain, argGui, ctk, messagebox, entry, dialogs, helpPrinted,
                   calls, clicks, pipeVars>>

InitMain ==
    /\ mpc = "main"
    /\ argDomain \in {Absent, Given(<<>>), Given(<<"e">>)}
    /\ argGui \in BOOLEAN
    /\ ctk \in BOOLEAN
    /\ messagebox \in BOOLEAN
    /\ entry = <<>>
    /\ dialogs = <<>>
    /\ helpPrinted = FALSE
    /\ calls = <<>>
    /\ clicks = 0
    /\ PipeInit
    /\ Template = TRUE
    /\ pdfkit = "working"
    /\ pc = "idle"
    /\ domain = DefaultDomain
    /\ results = <<>>
    /\ dirs = {}
    /\ fs = EmptyFs

NextMain == Main \/ GuiEdit \/ GuiStart \/ GuiClose

SpecMain == InitMain /\ [][NextMain]_vars

\* --------------------------------------------- combine_subdomains alone
\* combine_subdomains called on a directory holding any amass.txt and
\* subfinder.txt, each present or missing
InitMerge ==
    /\ PipeInit
    /\ Template = TRUE
    /\ pdfkit = "working"
    /\ pc = "merge_subdomains"
    /\ domain = DefaultDomain
    /\ results = <<>>
    /\ dirs = {"out"}
    /\ \E a \in SelfWrites(SeqsUpTo(CharsA, MaxLenA)), b \in SelfWrites(SeqsUpTo(CharsB, MaxLenB)) :
         fs = [EmptyFs EXCEPT !["amass.txt"] = a, !["subfinder.txt"] = b]
    /\ MainIdle

NextMerge == CombineSubdomains

SpecMerge == InitMerge /\ [][NextMerge]_vars

\* the lines of an input as the merge sees them; a missing file has none
LinesOf(file) == IF file.exists THEN splitlines(Translate(file.text)) ELSE <<>>

\* the positions of L that hold the first occurrence of their line
FirstIdx(L) == {i \in 1..Len(L) : \A j \in 1..(i - 1) : L[j] # L[i]}

\* L with every line that occurred earlier removed
FirstOccurrences(L) ==
    [k \in 1..Cardinality(FirstIdx(L)) |->
        L[CHOOSE i \in FirstIdx(L) : Cardinality({j \in FirstIdx(L) : j < i}) = k - 1]]

RECURSIVE JoinLines(_)
JoinLines(L) == IF L = <<>> THEN <<>> ELSE Head(L) \o <<"\n">> \o JoinLines(Tail(L))

Merged == pc = "probe_live_hosts" /\ trace = <<"merge_subdomains">>

\* C2: with both inputs present, subdominios.txt holds the lines of amass.txt
\* followed by those of subfinder.txt with every line that occurred earlier
\* removed: each distinct line once, at its first occurrence, nothing else.
C2_MergeFirstOccurrences ==
    (Merged /\ fs["amass.txt"].exists /\ fs["subfinder.txt"].exists) =>
        LET L == LinesOf(fs["amass.txt"]) \o LinesOf(fs["subfinder.txt"])
            O == splitlines(fs["subdominios.txt"].text)
        IN /\ fs["subdominios.txt"].text = JoinLines(FirstOccurrences(L))
           /\ \A i, j \in 1..Len(O) : O[i] = O[j] => i = j
           /\ {O[i] : i \in 1..Len(O)} = {L[i] : i \in 1..Len(L)}

C2_Witness ==
    /\ Merged
    /\ LinesOf(fs["amass.txt"]) = << <<"a">>, <<"b">>, <<"a">> >>
    /\ fs["subfinder.txt"].text = <<"b", "\r">>
    /\ fs["subdominios.txt"].text = <<"a", "\n", "b", "\n">>

\* C3: a missing input contributes no line and is no error: subdominios.txt
\* exists after the call, empty when both inputs are missing and the
\* deduplicated lines of the existing input when one is missing.
C3_MissingInputsTolerated ==
    /\ pc # "error"
    /\ (Merged /\ (~fs["amass.txt"].exists \/ ~fs["subfinder.txt"].exists)) =>
        /\ err = "none"
        /\ fs["subdominios.txt"].exists
        /\ (~fs["amass.txt"].exists /\ ~fs["subfinder.txt"].exists) =>
               fs["subdominios.txt"].text = <<>>
        /\ (~fs["amass.txt"].exists /\ fs["subfinder.txt"].exists) =>
               fs["subdominios.txt"].text
                   = JoinLines(FirstOccurrences(LinesOf(fs["subfinder.txt"])))
        /\ (fs["amass.txt"].exists /\ ~fs["subfinder.txt"].exists) =>
               fs["subdominios.txt"].text
                   = JoinLines(FirstOccurrences(LinesOf(fs["amass.txt"])))

C3_Witness ==
    /\ Merged
    /\ ~fs["amass.txt"].exists
    /\ fs["subfinder.txt"].text = <<"\n", "a">>
    /\ fs["subdominios.txt"] = FileOf(<<"\n", "a", "\n">>)

\* ------------------------------------------------ generate_report alone
\* generate_report called with any domain and any ordered mapping of at most
\* MaxSections entries, each file present or missing
ReportKeys == {"amass", "dnsrecon", "nmap"}
KeyFile(k) == k \o ".txt"
ReportFileStates == {NoFile, FileOf(<<>>), FileOf(<<"a", "\r", "\n", "b">>)}

Mappings(n) ==
    {[i \in 1..Len(ks) |-> <<ks[i], KeyFile(ks[i])>>] :
        ks \in {s \in SeqsUpTo(ReportKeys, n) : \A i, j \in 1..Len(s) : s[i] = s[j] => i = j}}

InitReport ==
    /\ PipeInit
    /\ EnvInit
    /\ pc = "generate_report"
    /\ domain \in Domains
    /\ dirs = {"out"}
    /\ results \in Mappings(MaxSections)
    /\ \E content \in [ReportKeys -> ReportFileStates] :
         fs = [f \in FileNames |->
                 IF \E k \in ReportKeys : KeyFile(k) = f
                 THEN content[CHOOSE k \in ReportKeys : KeyFile(k) = f]
                 ELSE NoFile]
    /\ MainIdle

NextReport == GenerateReport

SpecReport == InitReport /\ [][NextReport]_vars

\* C4: after generate_report returns, the HTML and the PDF file both exist;
\* an unavailable or raising converter raises nothing in the caller and
\* leaves the fixed placeholder text in the PDF file.
C4_ReportFilesAlwaysExist ==
    /\ err # "pdf"
    /\ pc = "done" =>
        /\ fs[HtmlName(domain)].exists
        /\ fs[PdfName(domain)].exists
        /\ pdfkit \in {"absent", "failing"} =>
               fs[PdfName(domain)] = FileOf(<<"PDF generation failed">>)

C4_Witness ==
    /\ pc = "done"
    /\ trace = <<"generate_report">>
    /\ pdfkit = "absent"
    /\ results # <<>>
    /\ fs[HtmlName(domain)].exists
    /\ fs[PdfName(domain)].text = <<"PDF generation failed">>

\* position i of document h lies inside a <pre> element
InPre(h, i) ==
    Cardinality({j \in 1..(i - 1) : h[j] = "<pre>"})
        > Cardinality({j \in 1..(i - 1) : h[j] = "</pre>"})

Positions(h) == [i \in 1..Len(h) |-> i]

\* the document without the layout white space between its elements
StripLayout(h) ==
    LET kept == SelectSeq(Positions(h),
                          LAMBDA i : ~(h[i] = "\n            " /\ ~InPre(h, i)))
    IN [k \in 1..Len(kept) |-> h[kept[k]]]

\* the subsections of a document, in order: <<title, text>> of each
\* <h2>title</h2> ... <pre>text</pre>
SectionsOf(h) ==
    LET heads == SelectSeq(Positions(h), LAMBDA i : h[i] = "<h2>" /\ ~InPre(h, i))
        Open(i) == CHOOSE p \in (i + 1)..Len(h) :
                       h[p] = "<pre>" /\ \A j \in (i + 1)..(p - 1) : h[j] # "<pre>"
        Close(p) == CHOOSE q \in (p + 1)..Len(h) :
                       h[q] = "</pre>" /\ \A j \in (p + 1)..(q - 1) : h[j] # "</pre>"
    IN [k \in 1..Len(heads) |->
          <<h[heads[k] + 1],
            SubSeq(h, Open(heads[k]) + 1, Close(Open(heads[k])) - 1)>>]

\* what precedes the first subsection, without layout
Preamble(h) ==
    LET s == StripLayout(h)
        cut == IF \E i \in 1..Len(s) : s[i] \in {"<h2>", "</body>"}
               THEN CHOOSE i \in 1..Len(s) :
                        /\ s[i] \in {"<h2>", "</body>"}
                        /\ \A j \in 1..(i - 1) : s[j] \notin {"<h2>", "</body>"}
               ELSE Len(s) + 1
    IN SubSeq(s, 1, cut - 1)

\* C10: the document written with the templating engine and the one written
\* by the manual fallback are equivalent: the same domain heading followed by
\* the same subsections, each with the tool name as title and the text of
\* its file.
C10_TemplateAndFallbackEquivalent ==
    (pc = "done" /\ trace = <<"generate_report">>) =>
        LET texts == ReadAll(results, fs).texts
            mine == fs[HtmlName(domain)].text
            other == IF Template THEN RenderManual(domain, results, texts)
                     ELSE RenderTemplate(domain, results, texts)
        IN /\ StripLayout(mine) = StripLayout(other)
           /\ Preamble(mine) = <<"<html>", HeadTok, "<body>", "<h1>",
                                 "Reconocimiento para ", domain, "</h1>">>
           /\ Preamble(other) = Preamble(mine)
           /\ SectionsOf(mine) = [i \in 1..Len(results) |-> <<results[i][1], texts[i]>>]
           /\ SectionsOf(other) = SectionsOf(mine)

C10_Witness ==
    /\ pc = "done"
    /\ trace = <<"generate_report">>
    /\ Template
    /\ Keys(results) = <<"nmap", "amass">>
    /\ fs["nmap.txt"].text = <<"a", "\r", "\n", "b">>
    /\ fs["amass.txt"].text = <<>>
    /\ SectionsOf(fs[HtmlName(domain)].text)
         = << <<"nmap", <<"a", "\n", "b">> >>, <<"amass", <<>> >> >>
    /\ fs[HtmlName(domain)].text # RenderManual(domain, results, ReadAll(results, fs).texts)

\* ------------------------------------------------------ claims on run_all
\* C1: the stages of run_all execute one at a time in the fixed order; a
\* stage starts only when all the stages before it have finished.
C1_StagesInFixedOrder ==
    LET Order == <<"create_output_dir", "enumerate", "dns_info", "secondary_enum",
                   "merge_subdomains", "probe_live_hosts", "capture_screenshots",
                   "scan_ports", "generate_report">>
    IN /\ Len(trace) <= Len(Order)
       /\ trace = SubSeq(Order, 1, Len(trace))
       /\ pc \notin {"done", "error"} => pc = Order[Len(trace) + 1]
       /\ pc = "done" => trace = Order

C1_Witness ==
    /\ pc = "done"
    /\ run = "second"
    /\ Len(trace) = 9
    /\ trace[5] = "merge_subdomains"
    /\ trace[9] = "generate_report"

\* C5: a tool that fails, by a non-zero exit status or because its
\* executable is missing, raises nothing in run_command, so run_all goes on
\* to the next stage.
C5_ToolFailureAbsorbed == err # "exec"

\* C6: a self-writing tool that leaves no output file does not stop the
\* pipeline: no run of run_all ends in an error raised by reading a tool's
\* file.
C6_MissingFileNotFatal == ~(pc = "error" /\ err = "read")

\* C7: when run_all has completed a second time on the same domain, every
\* artifact was written by that second run.
C7_RerunOverwritesAll ==
    (run = "second" /\ pc = "done") =>
        (ToolFiles \cup {HtmlName(domain), PdfName(domain)}) \subseteq written

\* C8: when generate_report is called by run_all the keys of results are the
\* seven tool names in invocation order, and the HTML report has one
\* subsection per key in that order after the domain heading.
C8_ResultKeysInInvocationOrder ==
    LET Names == <<"amass", "dnsrecon", "subfinder", "subdominios", "vivos",
                   "gowitness", "nmap">>
    IN /\ pc \in {"generate_report", "done"} => Keys(results) = Names
       /\ pc = "done" =>
            LET h == fs[HtmlName(domain)].text
            IN /\ Keys(SectionsOf(h)) = Names
               /\ Preamble(h) = <<"<html>", HeadTok, "<body>", "<h1>",
                                  "Reconocimiento para ", domain, "</h1>">>

C8_Witness ==
    /\ pc = "done"
    /\ Len(results) = 7
    /\ Len(SectionsOf(fs[HtmlName(domain)].text)) = 7
    /\ SectionsOf(fs[HtmlName(domain)].text)[4] = <<"subdominios", <<"a", "\n", "b", "\n">> >>

\* ------------------------------------------- claims on the entry points
Blank(t) == \A i \in 1..Len(t) : t[i] = " "

NoSideEffect == calls = <<>> /\ dirs = {} /\ fs = EmptyFs

====
